---- MODULE Spec2Model ----
(***************************************************************************)
(* A model of the MessageBubble component                                  *)
(* (src/frontend/src/components/chat/MessageBubble.tsx).                   *)
(*                                                                         *)
(* One rendered message is an instance: its props, its one useState cell   *)
(* (showRawResponse) and the element tree its last render returned.  The   *)
(* operations are React's: creating an instance (mount), rendering it      *)
(* again with other props, the button's onClick, and destroying it.        *)
(***************************************************************************)
EXTENDS Naturals, Sequences, FiniteSets

\* ------------------------------------------------------------------ bounds

\* Instances rendered side by side by the parent view.
NumInstances == 2
\* Clicks counted per instance (the counter is a history variable).
MaxClicks == 2

Instances == 1..NumInstances

\* ------------------------------------------------------------------ props

\* MessageBubbleProps.role
Roles == {"user", "assistant"}
\* MessageBubbleProps.content
Contents == {"Hello", "line1\nline2"}
\* MessageBubbleProps.raw_model_response: the empty and a non-empty string
RawResponses == {"", "raw-debug-data"}
\* MessageBubbleProps.timestamp?: <<>> is undefined, <<s>> is the string s
Timestamps == {<<>>, <<"">>, <<"2024-01-01T13:05:00Z">>}

AllProps ==
    [role : Roles, content : Contents,
     raw_model_response : RawResponses, timestamp : Timestamps]

\* The props the side-by-side specification draws from: every role and
\* raw_model_response, one content, no timestamp.
ListProps ==
    [role : Roles, content : {"Hello"},
     raw_model_response : RawResponses, timestamp : {<<>>}]

\* The props slot of an instance that does not exist.
NoProps ==
    [role |-> "user", content |-> "", raw_model_response |-> "",
     timestamp |-> <<>>]

\* ----------------------------------------------------------------- render

\* const isUser = role === 'user'
isUser(role) == role = "user"

\* JavaScript truthiness of a string: the empty string is falsy.
Truthy(s) == s # ""

\* The button's two labels: 'إخفاء التفاصيل' (hide the details) and
\* 'عرض التفاصيل' (show the details).
HideLabel == "hide details"
ShowLabel == "show details"

\* A variant of RowClass: the two branches are swapped.
RowClassSwapped(role) == IF isUser(role) THEN "flex-row" ELSE "flex-row-reverse"

\* Outer <div>: the flex direction.
RowClass(role) == IF isUser(role) THEN "flex-row-reverse" ELSE "flex-row"

\* Avatar: background class and icon component.
Avatar(role) ==
    [bg   |-> IF isUser(role) THEN "bg-user-bubble" ELSE "bg-muted",
     icon |-> IF isUser(role) THEN "User" ELSE "Bot"]

\* Message column: cross-axis alignment.
ColumnClass(role) == IF isUser(role) THEN "items-end" ELSE "items-start"

\* A variant of Bubble: the text is trimmed to its first line.
BubbleFirstLine(role, content) ==
    [class |-> IF isUser(role)
                  THEN "bg-user-bubble text-user-bubble-foreground rounded-tl-sm"
                  ELSE "bg-assistant-bubble text-assistant-bubble-foreground rounded-tr-sm",
     whitespace |-> "pre-wrap",
     text  |-> IF content = "line1\nline2" THEN "line1" ELSE content]

\* The bubble: colour treatment by role, {content} as its only child.
Bubble(role, content) ==
    [class |-> IF isUser(role)
                  THEN "bg-user-bubble text-user-bubble-foreground rounded-tl-sm"
                  ELSE "bg-assistant-bubble text-assistant-bubble-foreground rounded-tr-sm",
     whitespace |-> "pre-wrap",
     text  |-> content]

\* A variant of Control: the role test is missing.
ControlAnyRole(role, raw_model_response, showRawResponse) ==
    IF Truthy(raw_model_response)
       THEN << [label   |-> IF showRawResponse THEN HideLabel ELSE ShowLabel,
                onClick |-> ~showRawResponse] >>
       ELSE << >>

\* {!isUser && raw_model_response && (<button ...>)}: <<>> when nothing is
\* rendered.  onClick is the value the closure hands to setShowRawResponse.
Control(role, raw_model_response, showRawResponse) ==
    IF ~isUser(role) /\ Truthy(raw_model_response)
       THEN << [label   |-> IF showRawResponse THEN HideLabel ELSE ShowLabel,
                onClick |-> ~showRawResponse] >>
       ELSE << >>

\* A variant of Panel: it shows a placeholder instead of the payload.
PanelPlaceholder(role, raw_model_response, showRawResponse) ==
    IF ~isUser(role) /\ showRawResponse
       THEN << [whitespace |-> "pre-wrap", text |-> "..."] >>
       ELSE << >>

\* {!isUser && showRawResponse && (<div ...>{raw_model_response}</div>)}
Panel(role, raw_model_response, showRawResponse) ==
    IF ~isUser(role) /\ showRawResponse
       THEN << [whitespace |-> "pre-wrap", text |-> raw_model_response] >>
       ELSE << >>

\* A variant of TimeLabel: the test is "timestamp !== undefined".
TimeLabelIfDefined(timestamp) ==
    IF timestamp # << >>
       THEN << [date |-> timestamp[1], locale |-> "ar-SA",
                hour |-> "2-digit", minute |-> "2-digit"] >>
       ELSE << >>

\* {timestamp && (<span>{new Date(timestamp).toLocaleTimeString(...)}</span>)}
\* The formatted text is the platform's; the model keeps the call.
TimeLabel(timestamp) ==
    IF timestamp # << >> /\ Truthy(timestamp[1])
       THEN << [date |-> timestamp[1], locale |-> "ar-SA",
                hour |-> "2-digit", minute |-> "2-digit"] >>
       ELSE << >>

\* The element tree one call of MessageBubble returns.
Render(p, showRawResponse) ==
    [row    |-> RowClass(p.role),
     avatar |-> Avatar(p.role),
     column |-> ColumnClass(p.role),
     bubble |-> Bubble(p.role, p.content),
     button |-> Control(p.role, p.raw_model_response, showRawResponse),
     panel  |-> Panel(p.role, p.raw_model_response, showRawResponse),
     time   |-> TimeLabel(p.timestamp)]

\* ------------------------------------------------------------------ state

VARIABLES
    mounted,          \* mounted[i]: instance i exists
    props,            \* props[i]: the props of its last render
    showRawResponse,  \* showRawResponse[i]: its useState cell; what the cell
                      \* of a destroyed instance holds is left over
    dom,              \* dom[i]: <<tree>> of its last render, <<>> if none
    clicks,           \* history: clicks on i since it was created
    lastEvent         \* history: the last operation, the instance it acted
                      \* on, and that instance's cell and button before it

vars == <<mounted, props, showRawResponse, dom, clicks, lastEvent>>

Event(op, i) ==
    [op |-> op, id |-> i, before |-> showRawResponse[i],
     hadControl |-> (dom[i] # << >> /\ dom[i][1].button # << >>)]

Init ==
    /\ mounted = [i \in Instances |-> FALSE]
    /\ props = [i \in Instances |-> NoProps]
    /\ showRawResponse = [i \in Instances |-> FALSE]
    /\ dom = [i \in Instances |-> << >>]
    /\ clicks = [i \in Instances |-> 0]
    /\ lastEvent = [op |-> "init", id |-> 0, before |-> FALSE,
                    hadControl |-> FALSE]

\* ------------------------------------------------------------- operations

\* A variant of Mount: the cell is restored from what the destroyed
\* instance left (a persisted toggle).
MountRestoring(i, p) ==
    /\ ~mounted[i]
    /\ mounted' = [mounted EXCEPT ![i] = TRUE]
    /\ props' = [props EXCEPT ![i] = p]
    /\ dom' = [dom EXCEPT ![i] = << Render(p, showRawResponse[i]) >>]
    /\ clicks' = [clicks EXCEPT ![i] = 0]
    /\ lastEvent' = Event("mount", i)
    /\ UNCHANGED showRawResponse

\* React creates instance i with props p: useState(false) initialises the
\* cell and the first render follows.
Mount(i, p) ==
    /\ ~mounted[i]
    /\ mounted' = [mounted EXCEPT ![i] = TRUE]
    /\ props' = [props EXCEPT ![i] = p]
    /\ showRawResponse' = [showRawResponse EXCEPT ![i] = FALSE]
    /\ dom' = [dom EXCEPT ![i] = << Render(p, FALSE) >>]
    /\ clicks' = [clicks EXCEPT ![i] = 0]
    /\ lastEvent' = Event("mount", i)

\* A variant of Rerender: changed props close the panel.
RerenderResetting(i, p) ==
    /\ mounted[i]
    /\ p # props[i]
    /\ props' = [props EXCEPT ![i] = p]
    /\ showRawResponse' = [showRawResponse EXCEPT ![i] = FALSE]
    /\ dom' = [dom EXCEPT ![i] = << Render(p, FALSE) >>]
    /\ lastEvent' = Event("rerender", i)
    /\ UNCHANGED <<mounted, clicks>>

\* The parent renders the same instance again with other props: useState
\* returns the cell as it is.
Rerender(i, p) ==
    /\ mounted[i]
    /\ p # props[i]
    /\ props' = [props EXCEPT ![i] = p]
    /\ dom' = [dom EXCEPT ![i] = << Render(p, showRawResponse[i]) >>]
    /\ lastEvent' = Event("rerender", i)
    /\ UNCHANGED <<mounted, showRawResponse, clicks>>

\* A variant of Click: one toggle shared by all instances.
ClickShared(i) ==
    /\ mounted[i]
    /\ dom[i][1].button # << >>
    /\ clicks[i] < MaxClicks
    /\ showRawResponse' =
           [j \in Instances |-> dom[i][1].button[1].onClick]
    /\ dom' = [j \in Instances |->
                 IF mounted[j]
                    THEN << Render(props[j], dom[i][1].button[1].onClick) >>
                    ELSE << >>]
    /\ clicks' = [clicks EXCEPT ![i] = @ + 1]
    /\ lastEvent' = Event("click", i)
    /\ UNCHANGED <<mounted, props>>

\* A variant of Click: the handler is setShowRawResponse(true).
ClickOpening(i) ==
    /\ mounted[i]
    /\ dom[i][1].button # << >>
    /\ clicks[i] < MaxClicks
    /\ showRawResponse' = [showRawResponse EXCEPT ![i] = TRUE]
    /\ dom' = [dom EXCEPT ![i] = << Render(props[i], TRUE) >>]
    /\ clicks' = [clicks EXCEPT ![i] = @ + 1]
    /\ lastEvent' = Event("click", i)
    /\ UNCHANGED <<mounted, props>>

\* A click on the button of instance i: the onClick closure of the last
\* render runs setShowRawResponse(!showRawResponse), and React renders the
\* instance again with the new cell.
Click(i) ==
    /\ mounted[i]
    /\ dom[i][1].button # << >>
    /\ clicks[i] < MaxClicks
    /\ showRawResponse' =
           [showRawResponse EXCEPT ![i] = dom[i][1].button[1].onClick]
    /\ dom' = [dom EXCEPT
                 ![i] = << Render(props[i], dom[i][1].button[1].onClick) >>]
    /\ clicks' = [clicks EXCEPT ![i] = @ + 1]
    /\ lastEvent' = Event("click", i)
    /\ UNCHANGED <<mounted, props>>

\* React destroys instance i: props and tree are gone, nothing is saved.
Unmount(i) ==
    /\ mounted[i]
    /\ mounted' = [mounted EXCEPT ![i] = FALSE]
    /\ props' = [props EXCEPT ![i] = NoProps]
    /\ dom' = [dom EXCEPT ![i] = << >>]
    /\ clicks' = [clicks EXCEPT ![i] = 0]
    /\ lastEvent' = Event("unmount", i)
    /\ UNCHANGED showRawResponse

\* ---------------------------------------------------------- specifications

\* One message, every combination of props.
Next ==
    \/ \E p \in AllProps : Mount(1, p)
    \/ \E p \in AllProps : Rerender(1, p)
    \/ Click(1)
    \/ Unmount(1)

Spec == Init /\ [][Next]_vars

\* Several messages side by side.
NextList ==
    \/ \E i \in Instances, p \in ListProps : Mount(i, p)
    \/ \E i \in Instances, p \in ListProps : Rerender(i, p)
    \/ \E i \in Instances : Click(i)
    \/ \E i \in Instances : Unmount(i)

SpecList == Init /\ [][NextList]_vars

TypeOK ==
    /\ mounted \in [Instances -> BOOLEAN]
    /\ props \in [Instances -> AllProps \cup {NoProps}]
    /\ showRawResponse \in [Instances -> BOOLEAN]
    /\ clicks \in [Instances -> 0..MaxClicks]
    /\ \A i \in Instances : mounted[i] <=> dom[i] # << >>

\* ----------------------------------------------------------------- claims

\* What the claims call the gate: role = assistant and a non-empty
\* raw_model_response.
Gate(i) == props[i].role = "assistant" /\ props[i].raw_model_response # ""

HasControl(i) == mounted[i] /\ dom[i][1].button # << >>
HasPanel(i) == mounted[i] /\ dom[i][1].panel # << >>
HasTime(i) == mounted[i] /\ dom[i][1].time # << >>

\* C1: in every reachable state the disclosure panel is presented only
\* when role = assistant, raw_model_response is non-empty and
\* showRawResponse is true.
C1_PanelOnlyWhenGated ==
    \A i \in Instances :
        HasPanel(i) => (Gate(i) /\ showRawResponse[i])

\* C2: the button is rendered if and only if role = assistant and
\* raw_model_response is non-empty, whatever showRawResponse is.
C2_ControlIffGate ==
    \A i \in Instances :
        mounted[i] => (HasControl(i) <=> Gate(i))

\* An instance of role user with a non-empty raw_model_response whose cell
\* is true (opened while it was an assistant message) and that has no button.
C2_Witness ==
    /\ mounted[1]
    /\ props[1].role = "user"
    /\ props[1].raw_model_response # ""
    /\ showRawResponse[1]
    /\ ~HasControl(1)

\* C3: whenever the button is rendered its label is the hide label exactly
\* when showRawResponse is true and the panel is present exactly when
\* showRawResponse is true, showing raw_model_response verbatim; before any
\* click the label is the show label and there is no panel, after one click
\* the panel is there with the hide label, after two it is as before.
C3_LabelAndPanelFollowVisible ==
    \A i \in Instances :
        HasControl(i) =>
            /\ dom[i][1].button[1].label = HideLabel <=> showRawResponse[i]
            /\ dom[i][1].button[1].label = ShowLabel <=> ~showRawResponse[i]
            /\ HasPanel(i) <=> showRawResponse[i]
            /\ HasPanel(i) =>
                   dom[i][1].panel[1].text = props[i].raw_model_response
            /\ clicks[i] \in {0, 2} =>
                   /\ dom[i][1].button[1].label = ShowLabel
                   /\ ~HasPanel(i)
            /\ clicks[i] = 1 =>
                   /\ dom[i][1].button[1].label = HideLabel
                   /\ HasPanel(i)

\* The state after the second click: the button with the show label, no
\* panel.
C3_Witness ==
    /\ HasControl(1)
    /\ clicks[1] = 2
    /\ lastEvent.op = "click"
    /\ lastEvent.before
    /\ dom[1][1].button[1].label = ShowLabel
    /\ ~HasPanel(1)

\* C4: a click negates showRawResponse, so after n clicks since creation it
\* is true iff n is odd (two clicks restore it), and the tree is the render
\* of the props with the negated value.
C4_ClickNegates ==
    /\ \A i \in Instances :
           mounted[i] =>
               /\ showRawResponse[i] <=> (clicks[i] % 2 = 1)
               /\ dom[i] = << Render(props[i], clicks[i] % 2 = 1) >>
    /\ lastEvent.op = "click" =>
           showRawResponse[lastEvent.id] = ~lastEvent.before

\* The state after two clicks, the second of which closed the panel.
C4_Witness ==
    /\ mounted[1]
    /\ clicks[1] = 2
    /\ lastEvent.op = "click"
    /\ lastEvent.before
    /\ ~showRawResponse[1]

\* C5: a newly created instance has showRawResponse = false, for every
\* combination of props and whatever the destroyed instance before it held.
C5_FreshInstanceHidden ==
    /\ lastEvent.op = "mount" =>
           /\ mounted[lastEvent.id]
           /\ ~showRawResponse[lastEvent.id]
           /\ dom[lastEvent.id] = << Render(props[lastEvent.id], FALSE) >>
    /\ \A i \in Instances :
           (mounted[i] /\ clicks[i] = 0) => ~showRawResponse[i]

\* An instance recreated after one that was destroyed with its panel open.
C5_Witness ==
    /\ lastEvent.op = "mount"
    /\ lastEvent.before
    /\ mounted[lastEvent.id]
    /\ ~showRawResponse[lastEvent.id]

\* C6: a click on one instance changes only that instance's
\* showRawResponse; the cell and the tree of every other instance are
\* unchanged.
C6_ClickIsLocal ==
    [][\A i \in Instances :
           Click(i) =>
               \A j \in Instances \ {i} :
                   /\ showRawResponse'[j] = showRawResponse[j]
                   /\ dom'[j] = dom[j]
                   /\ clicks'[j] = clicks[j]]_vars

\* Two instances with their buttons, both clicked, one open and one closed.
C6_Witness ==
    /\ HasControl(1) /\ HasControl(2)
    /\ clicks[1] = 1 /\ clicks[2] = 2
    /\ showRawResponse[1] /\ ~showRawResponse[2]
    /\ HasPanel(1) /\ ~HasPanel(2)

\* C7: the time label is rendered if and only if timestamp is present and
\* non-empty, for both roles and whatever showRawResponse and
\* raw_model_response are.
C7_TimeIffTimestamp ==
    \A i \in Instances :
        mounted[i] =>
            (HasTime(i) <=>
                (props[i].timestamp # << >> /\ props[i].timestamp[1] # ""))

\* An instance whose timestamp is the empty string, panel open: no label.
C7_Witness ==
    /\ mounted[1]
    /\ props[1].timestamp = << "" >>
    /\ showRawResponse[1]
    /\ ~HasTime(1)

\* C8: order, alignment, avatar and bubble colours are a function of role
\* alone: reversed, trailing and the person icon for user; normal, leading
\* and the agent icon for assistant.
C8_OrientationByRole ==
    \A i \in Instances :
        mounted[i] =>
            IF props[i].role = "user"
               THEN /\ dom[i][1].row = "flex-row-reverse"
                    /\ dom[i][1].column = "items-end"
                    /\ dom[i][1].avatar.icon = "User"
                    /\ dom[i][1].avatar.bg = "bg-user-bubble"
                    /\ dom[i][1].bubble.class =
                         "bg-user-bubble text-user-bubble-foreground rounded-tl-sm"
               ELSE /\ dom[i][1].row = "flex-row"
                    /\ dom[i][1].column = "items-start"
                    /\ dom[i][1].avatar.icon = "Bot"
                    /\ dom[i][1].avatar.bg = "bg-muted"
                    /\ dom[i][1].bubble.class =
                         "bg-assistant-bubble text-assistant-bubble-foreground rounded-tr-sm"

\* An assistant message right after a click that opened its panel, with a
\* time label: still in normal order.
C8_Witness ==
    /\ lastEvent.op = "click"
    /\ props[1].role = "assistant"
    /\ showRawResponse[1]
    /\ HasTime(1)
    /\ dom[1][1].row = "flex-row"

\* C9: a click leaves the props and the existence of the instance as they
\* are, and the bubble shows content verbatim in every state.
C9_ClickKeepsPropsAndBubble ==
    /\ [][\A i \in Instances :
             Click(i) => (props' = props /\ mounted' = mounted)]_vars
    /\ [](\A i \in Instances :
             mounted[i] =>
                 /\ dom[i][1].bubble.text = props[i].content
                 /\ dom[i][1].bubble.whitespace = "pre-wrap")

\* A two-line content still in the bubble after two clicks.
C9_Witness ==
    /\ mounted[1]
    /\ clicks[1] = 2
    /\ props[1].content = "line1\nline2"
    /\ dom[1][1].bubble.text = "line1\nline2"

\* C10: the cell of an existing instance changes only by a click, which
\* needs the rendered button (role = assistant, non-empty
\* raw_model_response); a render with changed props leaves the cell as it
\* is.
C10_OnlyClickChangesVisible ==
    [][\A i \in Instances :
           (mounted[i] /\ mounted'[i]) =>
               /\ showRawResponse'[i] # showRawResponse[i] =>
                      (Click(i) /\ HasControl(i) /\ Gate(i))
               /\ props'[i] # props[i] =>
                      showRawResponse'[i] = showRawResponse[i]
               /\ (~Gate(i) /\ props'[i] = props[i]) =>
                      showRawResponse'[i] = showRawResponse[i]]_vars

\* A render with changed props that brought the button back, the panel
\* still open from before.
C10_Witness ==
    /\ lastEvent.op = "rerender"
    /\ ~lastEvent.hadControl
    /\ lastEvent.before
    /\ HasControl(lastEvent.id)
    /\ showRawResponse[lastEvent.id]
    /\ HasPanel(lastEvent.id)

====
